---- MODULE Spec2Model ----
(***************************************************************************)
(* LeaveBot (ohshaan/AgentBotv1): the code resolver and eligibility engine *)
(* of leavebot/domain/leave_helpers.py, the normalizer of                  *)
(* leavebot/domain/mapping.py and the semantic search of                   *)
(* leavebot/core/search_embeddings.py.                                     *)
(*                                                                         *)
(* Python values are modelled as follows.                                  *)
(*   str    a sequence of one-character strings, <<"A", "L">> for "AL"     *)
(*   dict   a sequence of <<key, value>> pairs in insertion order, keys    *)
(*          unique (Python dicts iterate in insertion order)               *)
(*   list   a sequence                                                     *)
(*   None   the value None below where a str is expected, NoneV where a    *)
(*          bool or a str may be returned                                  *)
(*   f"..." a record of the template and the interpolated values           *)
(***************************************************************************)
EXTENDS Integers, Sequences, FiniteSets, TLC

VARIABLES
    api_data,       \* raw ERP payload given to build_full_context, or NoData
    ctx,            \* mapped context (leave_types, leave_balances), or NotMapped
    helper,         \* the LeaveHelpers instance, or NoHelper
    now,            \* what datetime.now() returns: [day, tod]
    call,           \* the last call made and what it returned, or NoCall
    doc_knowledge,  \* the corpus given to search_doc_knowledge
    env             \* the service the run talks to: the embedding provider
                    \* (credential, transport, vector) or the ERP (its answers)

vars == <<api_data, ctx, helper, now, call, doc_knowledge, env>>

NoData == [none |-> "api_data"]
NotMapped == [none |-> "ctx"]
NoHelper == [none |-> "helper"]
NoCall == [op |-> "none"]
NoEnv == [none |-> "env"]

\* main.py is run once per question: it loads the tables, builds the helper
\* and answers the one question, so a session makes one call
Idle == call = NoCall /\ helper # NoHelper

(***************************************************************************)
(* Bounds of the model.                                                    *)
(***************************************************************************)
MaxTypes == 2       \* leave types in a catalog
MaxBalances == 2    \* entries of a balance table
MaxDocs == 3        \* entries of a corpus
MaxTopK == 2        \* largest top_k asked for

(***************************************************************************)
(* Python str operations.                                                  *)
(***************************************************************************)
None == <<"None">>

Min(S) == CHOOSE x \in S : \A y \in S : x <= y

UpperChar(c) ==
    CASE c = "a" -> "A" [] c = "b" -> "B" [] c = "c" -> "C" [] OTHER -> c

LowerChar(c) ==
    CASE c = "A" -> "a" [] c = "B" -> "b" [] c = "C" -> "c" [] OTHER -> c

upper(s) == [i \in DOMAIN s |-> UpperChar(s[i])]

lower(s) == [i \in DOMAIN s |-> LowerChar(s[i])]

IsSpace(c) == c = " "

RECURSIVE lstrip(_)
lstrip(s) == IF s # <<>> /\ IsSpace(Head(s)) THEN lstrip(Tail(s)) ELSE s

RECURSIVE rstrip(_)
rstrip(s) ==
    IF s # <<>> /\ IsSpace(s[Len(s)]) THEN rstrip(SubSeq(s, 1, Len(s) - 1)) ELSE s

strip(s) == rstrip(lstrip(s))

\* sub in s
Contains(s, sub) ==
    \E i \in 0..(Len(s) - Len(sub)) : SubSeq(s, i + 1, i + Len(sub)) = sub

(***************************************************************************)
(* Python dict operations on insertion-ordered pair sequences.             *)
(***************************************************************************)
DictKeys(d) == {d[i][1] : i \in DOMAIN d}

DictHas(d, k) == \E i \in DOMAIN d : d[i][1] = k

DictIndex(d, k) == CHOOSE i \in DOMAIN d : d[i][1] = k

DictAt(d, k) == d[DictIndex(d, k)][2]

\* d[k] = v: an existing key keeps its position, a new key goes last
DictSet(d, k, v) ==
    IF DictHas(d, k)
    THEN [d EXCEPT ![DictIndex(d, k)] = <<k, v>>]
    ELSE Append(d, <<k, v>>)

\* {k: v for (k, v) in pairs}
RECURSIVE DictOf(_)
DictOf(pairs) ==
    IF pairs = <<>> THEN <<>>
    ELSE LET n == Len(pairs)
         IN DictSet(DictOf(SubSeq(pairs, 1, n - 1)), pairs[n][1], pairs[n][2])

(***************************************************************************)
(* Python values returned by the queries, f-strings, and what a call does. *)
(***************************************************************************)
NoneV == [t |-> "None"]
BoolV(b) == [t |-> "bool", v |-> b]
StrV(s) == [t |-> "str", v |-> s]

Msg(fmt, args) == [fmt |-> fmt, args |-> args]

Return(value, message) == [raised |-> FALSE, value |-> value, message |-> message]
Raise(exc) == [raised |-> TRUE, exc |-> exc]
ReturnValue(value) == [raised |-> FALSE, value |-> value]

\* d.get(k, default)
DictGet(d, k, default) == IF DictHas(d, k) THEN DictAt(d, k) ELSE default

\* record.get(field, default)
Get(r, field, default) == IF field \in DOMAIN r THEN r[field] ELSE default

\* "not info" for a value that is None or a mapping
NotInfo(info) == info = NoneV \/ DOMAIN info = {}

\* "not code" for a value that is None or a str
NotCode(code) == code = None \/ code = <<>>

(***************************************************************************)
(* datetime.strptime(text, "%d-%b-%Y") on a date text given as its tokens, *)
(* <<"15", "-", "Jun", "-", "2026">>.  %b ignores case; a day the month    *)
(* does not have is a ValueError.                                          *)
(***************************************************************************)
DayNumber(tok) ==
    CASE tok = "01" -> 1 [] tok = "1" -> 1 [] tok = "15" -> 15 [] tok = "31" -> 31
      [] OTHER -> 0

MonthNumber(tok) ==
    CASE tok \in {"Jan", "jan", "JAN"} -> 1
      [] tok \in {"Feb", "feb", "FEB"} -> 2
      [] tok \in {"Jun", "jun", "JUN"} -> 6
      [] tok \in {"Dec", "dec", "DEC"} -> 12
      [] OTHER -> 0

YearNumber(tok) ==
    CASE tok = "2025" -> 2025 [] tok = "2026" -> 2026 [] tok = "2027" -> 2027
      [] OTHER -> 0

DaysIn(m) == IF m = 2 THEN 28 ELSE IF m \in {4, 6, 9, 11} THEN 30 ELSE 31

strptime(text) ==
    IF /\ Len(text) = 5
       /\ text[2] = "-" /\ text[4] = "-"
       /\ DayNumber(text[1]) > 0
       /\ MonthNumber(text[3]) > 0
       /\ YearNumber(text[5]) > 0
       /\ DayNumber(text[1]) <= DaysIn(MonthNumber(text[3]))
    THEN [ok |-> TRUE, y |-> YearNumber(text[5]), m |-> MonthNumber(text[3]),
          d |-> DayNumber(text[1]), tod |-> 0]
    ELSE [ok |-> FALSE]

\* datetime.now(): the day of the session, at midnight sharp or later that day
Today == [y |-> 2026, m |-> 6, d |-> 15]

Clock(tod) == [y |-> Today.y, m |-> Today.m, d |-> Today.d, tod |-> tod]

\* a > b for two datetime values
DatetimeGt(a, b) ==
    \/ a.y > b.y
    \/ a.y = b.y /\ a.m > b.m
    \/ a.y = b.y /\ a.m = b.m /\ a.d > b.d
    \/ a.y = b.y /\ a.m = b.m /\ a.d = b.d /\ a.tod > b.tod

(***************************************************************************)
(* The normalizer of mapping.py.  Numbers of the ERP payload are integers  *)
(* here, so float(x) and int(x) leave them as they are.                    *)
(***************************************************************************)
DigitChar(n) ==
    CASE n = 0 -> "0" [] n = 1 -> "1" [] n = 2 -> "2" [] n = 3 -> "3" [] n = 4 -> "4"
      [] n = 5 -> "5" [] n = 6 -> "6" [] n = 7 -> "7" [] n = 8 -> "8" [] n = 9 -> "9"

\* str(n) for a number n >= 0
RECURSIVE Str(_)
Str(n) == IF n < 10 THEN <<DigitChar(n)>> ELSE Append(Str(n \div 10), DigitChar(n % 10))

\* str(r.get(field)) for a number field; str(None) is "None"
StrGet(r, field) ==
    IF field \in DOMAIN r THEN Str(r[field]) ELSE <<"N", "o", "n", "e">>

map_employee(employee_raw) ==
    IF employee_raw = <<>> THEN <<>>
    ELSE LET emp == employee_raw[1]
         IN  [ emp_id |-> Get(emp, "Emp_ID_N", NoneV),
               name |-> IF Get(emp, "Emp_EFullName_V", <<>>) # <<>>
                        THEN Get(emp, "Emp_EFullName_V", <<>>)
                        ELSE Get(emp, "Emp_EDisplayName_V", <<>>),
               probation_end |-> Get(emp, "Emp_ProbationEndDate_D", None) ]

map_leave_types(leave_types_raw) ==
    [ i \in DOMAIN leave_types_raw |->
        LET lt == leave_types_raw[i]
        IN  [ id |-> Get(lt, "Lpd_ID_N", NoneV),
              code |-> Get(lt, "Lvm_Code_V", None),
              desc |-> Get(lt, "Lvm_Description_V", None),
              attach_required |-> Str(Get(lt, "Lvm_AttachRequired_N", 0)) = <<"1">>,
              self_service |-> Str(Get(lt, "Lvm_ShwSelfService_N", 0)) = <<"1">>,
              anniv_date |-> Get(lt, "Emp_AnnivDate_D", None),
              atm_id |-> Get(lt, "Atm_ID_N", NoneV),
              eligibility_on_workdays |->
                  Str(Get(lt, "Lpd_EligibilityOnWrkdays_N", 0)) = <<"1">> ] ]

\* a value of the raw balance map: a list of items, or something else
ListVal(items) == [is_list |-> TRUE, items |-> items]
OtherVal == [is_list |-> FALSE, items |-> <<>>]

\* "not vals or not isinstance(vals, list)"
SkippedVals(vals) == vals.items = <<>> \/ ~vals.is_list

MappedBalance(lpd_id, item) ==
    [ id |-> lpd_id,
      balance |-> Get(item, "Balance", 0),
      eligible |-> Get(item, "Eligible", 0),
      paid |-> Get(item, "Paid", 0),
      unpaid |-> Get(item, "UnPaid", 0),
      days_allowed |-> Get(item, "DAYS", 0),
      air_ticket |-> Get(item, "Airticket", 0) # 0,
      max_days |-> Get(item, "Maxdays", 0),
      allow_half_day |-> Get(item, "Lpd_AllowHalfDay_N", 0) # 0,
      anniv_date |-> Get(item, "Emp_AnnivDate_D", None),
      air_ticket_percent |-> Get(item, "AirTicketPercent", 0) ]

\* a faulty variant: the entry is built from the last element of the list
MappedUpTo_LastElement(leave_balances_raw, id_to_code, n) ==
    LET raw == SubSeq(leave_balances_raw, 1, n)
        kept == { i \in DOMAIN raw : ~SkippedVals(raw[i][2]) }
        Order == CHOOSE f \in [1..Cardinality(kept) -> kept] :
                     \A i, j \in DOMAIN f : i < j => f[i] < f[j]
    IN  DictOf([ i \in DOMAIN Order |->
                   LET lpd_id == raw[Order[i]][1]
                       items == raw[Order[i]][2].items
                   IN  <<DictGet(id_to_code, Str(lpd_id), Str(lpd_id)),
                         MappedBalance(lpd_id, items[Len(items)])>> ])

\* the loop of map_leave_balances over the first n raw entries
RECURSIVE MappedUpTo(_, _, _)
MappedUpTo(leave_balances_raw, id_to_code, n) ==
    IF n = 0 THEN <<>>
    ELSE LET mapped == MappedUpTo(leave_balances_raw, id_to_code, n - 1)
             lpd_id == leave_balances_raw[n][1]
             vals == leave_balances_raw[n][2]
             code == DictGet(id_to_code, Str(lpd_id), Str(lpd_id))
         IN  IF SkippedVals(vals) THEN mapped
             ELSE DictSet(mapped, code, MappedBalance(lpd_id, vals.items[1]))

map_leave_balances(leave_balances_raw, leave_types_raw) ==
    LET id_to_code ==
            DictOf([i \in DOMAIN leave_types_raw |->
                       <<StrGet(leave_types_raw[i], "Lpd_ID_N"),
                         Get(leave_types_raw[i], "Lvm_Code_V", None)>>])
    IN  MappedUpTo(leave_balances_raw, id_to_code, Len(leave_balances_raw))

build_full_context(data) ==
    [ employee |-> map_employee(data.employee),
      leave_types |-> map_leave_types(data.leave_types),
      leave_balances |-> map_leave_balances(data.leave_balances, data.leave_types) ]

(***************************************************************************)
(* LeaveHelpers                                                            *)
(***************************************************************************)
LeaveHelpers_init(leave_balances, leave_types) ==
    [ leave_balances |-> leave_balances,
      leave_types    |->
          DictOf([i \in DOMAIN leave_types |-> <<leave_types[i].code, leave_types[i]>>]),
      code_to_desc   |->
          DictOf([i \in DOMAIN leave_types |->
                     <<leave_types[i].code, leave_types[i].desc>>]),
      desc_to_code   |->
          DictOf([i \in DOMAIN leave_types |->
                     <<lower(leave_types[i].desc), leave_types[i].code>>]) ]

\* a faulty variant: the description scan lets the last hit win
resolve_code_LastHit(self, leave_query) ==
    LET q == upper(strip(leave_query))
        q_lower == lower(strip(leave_query))
        hits == {i \in DOMAIN self.code_to_desc :
                    Contains(lower(self.code_to_desc[i][2]), q_lower)}
    IN  IF DictHas(self.leave_types, q) THEN q
        ELSE IF hits = {} THEN None
        ELSE self.code_to_desc[CHOOSE i \in hits : \A j \in hits : j <= i][1]

resolve_code(self, leave_query) ==
    LET q == upper(strip(leave_query))
        q_lower == lower(strip(leave_query))
        hits == {i \in DOMAIN self.code_to_desc :
                    Contains(lower(self.code_to_desc[i][2]), q_lower)}
    IN  IF DictHas(self.leave_types, q) THEN q
        ELSE IF hits = {} THEN None
        ELSE self.code_to_desc[Min(hits)][1]

NotFoundMsg(leave_query) == Msg("Leave type '{leave_query}' not found.", <<leave_query>>)

\* a faulty variant: a balance of exactly zero counts as sufficient
can_apply_for_ZeroIsEnough(self, leave_query) ==
    LET code == resolve_code(self, leave_query)
        info == DictGet(self.leave_balances, code, NoneV)
    IN  IF NotCode(code) THEN Return(BoolV(FALSE), NotFoundMsg(leave_query))
        ELSE IF ~DictHas(self.code_to_desc, code) THEN Raise("KeyError")
        ELSE IF NotInfo(info) \/ Get(info, "balance", 0) < 0
        THEN Return(BoolV(FALSE),
                    Msg("You do not have sufficient balance for {code_to_desc[code]}.",
                        <<DictAt(self.code_to_desc, code)>>))
        ELSE Return(BoolV(TRUE),
                    Msg("You can apply for {code_to_desc[code]}. Your balance: {balance} days.",
                        <<DictAt(self.code_to_desc, code), Get(info, "balance", NoneV)>>))

can_apply_for(self, leave_query) ==
    LET code == resolve_code(self, leave_query)
        info == DictGet(self.leave_balances, code, NoneV)
    IN  IF NotCode(code) THEN Return(BoolV(FALSE), NotFoundMsg(leave_query))
        ELSE IF ~DictHas(self.code_to_desc, code) THEN Raise("KeyError")
        ELSE IF NotInfo(info) \/ Get(info, "balance", 0) <= 0
        THEN Return(BoolV(FALSE),
                    Msg("You do not have sufficient balance for {code_to_desc[code]}.",
                        <<DictAt(self.code_to_desc, code)>>))
        ELSE Return(BoolV(TRUE),
                    Msg("You can apply for {code_to_desc[code]}. Your balance: {balance} days.",
                        <<DictAt(self.code_to_desc, code), Get(info, "balance", NoneV)>>))

air_ticket_with(self, leave_query) ==
    LET code == resolve_code(self, leave_query)
        info == DictGet(self.leave_balances, code, NoneV)
    IN  IF NotCode(code) THEN Return(BoolV(FALSE), NotFoundMsg(leave_query))
        ELSE IF ~NotInfo(info) /\ Get(info, "air_ticket", FALSE)
        THEN IF ~DictHas(self.code_to_desc, code) THEN Raise("KeyError")
             ELSE Return(BoolV(TRUE),
                         Msg("Air ticket is granted with {code_to_desc[code]} ({air_ticket_percent}%).",
                             <<DictAt(self.code_to_desc, code),
                               Get(info, "air_ticket_percent", 0)>>))
        ELSE Return(BoolV(FALSE),
                    Msg("Air ticket is NOT granted with {code_to_desc.get(code, leave_query)}.",
                        <<DictGet(self.code_to_desc, code, leave_query)>>))

needs_attachment(self, leave_query) ==
    LET code == resolve_code(self, leave_query)
    IN  IF NotCode(code) THEN Return(NoneV, NotFoundMsg(leave_query))
        ELSE IF ~DictHas(self.leave_types, code) \/ ~DictHas(self.code_to_desc, code)
        THEN Raise("KeyError")
        ELSE LET attach_required ==
                     Get(DictAt(self.leave_types, code), "attach_required", FALSE)
             IN  Return(BoolV(attach_required),
                        IF attach_required
                        THEN Msg("{code_to_desc[code]} requires an attachment.",
                                 <<DictAt(self.code_to_desc, code)>>)
                        ELSE Msg("{code_to_desc[code]} does NOT require an attachment.",
                                 <<DictAt(self.code_to_desc, code)>>))

is_self_service(self, leave_query) ==
    LET code == resolve_code(self, leave_query)
    IN  IF NotCode(code) THEN Return(NoneV, NotFoundMsg(leave_query))
        ELSE IF ~DictHas(self.leave_types, code) \/ ~DictHas(self.code_to_desc, code)
        THEN Raise("KeyError")
        ELSE LET self_service ==
                     Get(DictAt(self.leave_types, code), "self_service", FALSE)
             IN  Return(BoolV(self_service),
                        IF self_service
                        THEN Msg("{code_to_desc[code]} can be applied by self-service.",
                                 <<DictAt(self.code_to_desc, code)>>)
                        ELSE Msg("{code_to_desc[code]} requires manager processing.",
                                 <<DictAt(self.code_to_desc, code)>>))

\* anniv is truthy, parses and lies after datetime.now(); a ValueError of
\* strptime is caught and passed over
AnnivAhead(anniv, clock) ==
    /\ anniv # None /\ anniv # <<>>
    /\ strptime(anniv).ok
    /\ DatetimeGt(strptime(anniv), clock)

\* a faulty variant: a balance of exactly zero counts as available
next_eligible_date_ZeroIsNow(self, leave_query, clock) ==
    LET code == resolve_code(self, leave_query)
        info == DictGet(self.leave_balances, code, NoneV)
        anniv == Get(info, "anniv_date", None)
    IN  IF NotCode(code) THEN Return(StrV(<<>>), NotFoundMsg(leave_query))
        ELSE IF NotInfo(info)
        THEN Return(StrV(<<>>), Msg("No balance info for {code}.", <<code>>))
        ELSE IF ~DictHas(self.code_to_desc, code) THEN Raise("KeyError")
        ELSE IF Get(info, "balance", 0) >= 0
        THEN Return(StrV(<<"N", "o", "w">>),
                    Msg("You can apply for {code_to_desc[code]} immediately.",
                        <<DictAt(self.code_to_desc, code)>>))
        ELSE IF AnnivAhead(anniv, clock)
        THEN Return(StrV(anniv),
                    Msg("You can apply for {code_to_desc[code]} after {anniv}.",
                        <<DictAt(self.code_to_desc, code), anniv>>))
        ELSE Return(StrV(<<>>),
                    Msg("You are not eligible for {code_to_desc[code]} at the moment.",
                        <<DictAt(self.code_to_desc, code)>>))

next_eligible_date(self, leave_query, clock) ==
    LET code == resolve_code(self, leave_query)
        info == DictGet(self.leave_balances, code, NoneV)
        anniv == Get(info, "anniv_date", None)
    IN  IF NotCode(code) THEN Return(StrV(<<>>), NotFoundMsg(leave_query))
        ELSE IF NotInfo(info)
        THEN Return(StrV(<<>>), Msg("No balance info for {code}.", <<code>>))
        ELSE IF ~DictHas(self.code_to_desc, code) THEN Raise("KeyError")
        ELSE IF Get(info, "balance", 0) > 0
        THEN Return(StrV(<<"N", "o", "w">>),
                    Msg("You can apply for {code_to_desc[code]} immediately.",
                        <<DictAt(self.code_to_desc, code)>>))
        ELSE IF AnnivAhead(anniv, clock)
        THEN Return(StrV(anniv),
                    Msg("You can apply for {code_to_desc[code]} after {anniv}.",
                        <<DictAt(self.code_to_desc, code), anniv>>))
        ELSE Return(StrV(<<>>),
                    Msg("You are not eligible for {code_to_desc[code]} at the moment.",
                        <<DictAt(self.code_to_desc, code)>>))

\* a faulty variant: the last other code with a positive balance is suggested
suggest_alternative_leave_LastPositive(self, leave_query) ==
    LET code == resolve_code(self, leave_query)
        lb == self.leave_balances
        others == { i \in DOMAIN lb :
                      Get(lb[i][2], "balance", 0) > 0 /\ lb[i][1] # code }
        last == CHOOSE i \in others : \A j \in others : j <= i
        first == DictGet(self.code_to_desc, lb[last][1], lb[last][1])
    IN  IF NotCode(code) \/ Get(DictGet(lb, code, <<>>), "balance", 0) > 0
        THEN Return(NoneV, Msg("", <<>>))
        ELSE IF others # {}
        THEN Return(StrV(first),
                    Msg("You have no balance in {code_to_desc.get(code, code)}. Consider applying for {alternatives[0]} instead.",
                        <<DictGet(self.code_to_desc, code, code), first>>))
        ELSE Return(NoneV, Msg("You do not have sufficient balance in any leave type.", <<>>))

suggest_alternative_leave(self, leave_query) ==
    LET code == resolve_code(self, leave_query)
        lb == self.leave_balances
        \* positions of the other codes with a positive balance
        others == { i \in DOMAIN lb :
                      Get(lb[i][2], "balance", 0) > 0 /\ lb[i][1] # code }
        first == DictGet(self.code_to_desc, lb[Min(others)][1], lb[Min(others)][1])
    IN  IF NotCode(code) \/ Get(DictGet(lb, code, <<>>), "balance", 0) > 0
        THEN Return(NoneV, Msg("", <<>>))
        ELSE IF others # {}
        THEN Return(StrV(first),
                    Msg("You have no balance in {code_to_desc.get(code, code)}. Consider applying for {alternatives[0]} instead.",
                        <<DictGet(self.code_to_desc, code, code), first>>))
        ELSE Return(NoneV, Msg("You do not have sufficient balance in any leave type.", <<>>))


\* the row that leave_balances_summary appends for one balance entry
SummaryRow(self, code, info) ==
    [ code |-> code,
      desc |-> DictGet(self.code_to_desc, code, code),
      balance |-> Get(info, "balance", 0),
      eligible |-> Get(info, "eligible", 0),
      air_ticket |-> Get(info, "air_ticket", FALSE),
      attach_required |-> Get(DictAt(self.leave_types, code), "attach_required", FALSE) ]

\* self.leave_types[code] is a KeyError for a balance key the catalog lacks
leave_balances_summary(self) ==
    IF \E i \in DOMAIN self.leave_balances :
           ~DictHas(self.leave_types, self.leave_balances[i][1])
    THEN Raise("KeyError")
    ELSE ReturnValue([ i \in DOMAIN self.leave_balances |->
                         SummaryRow(self, self.leave_balances[i][1],
                                    self.leave_balances[i][2]) ])

(***************************************************************************)
(* AirTicketEligibility (air_ticket.py): the second implementation of the  *)
(* air-ticket query, on the same tables.                                   *)
(***************************************************************************)
AirTicketEligibility_init(leave_balances, leave_types) ==
    [ leave_balances |-> leave_balances,
      leave_types    |-> leave_types,
      code_to_desc   |->
          DictOf([i \in DOMAIN leave_types |->
                     <<leave_types[i].code, leave_types[i].desc>>]) ]

is_eligible(self, leave_query) ==
    LET q0 == upper(strip(leave_query))
        info0 == DictGet(self.leave_balances, q0, NoneV)
        q_lower == lower(strip(leave_query))
        hits == {i \in DOMAIN self.code_to_desc :
                    Contains(lower(self.code_to_desc[i][2]), q_lower)}
        \* the description scan runs when the balance table has no entry for q
        scanned == NotInfo(info0) /\ hits # {}
        q == IF scanned THEN self.code_to_desc[Min(hits)][1] ELSE q0
        info == IF scanned THEN DictGet(self.leave_balances, q, NoneV) ELSE info0
    IN  IF ~NotInfo(info) /\ Get(info, "air_ticket", FALSE)
        THEN Return(BoolV(TRUE),
                    Msg("Eligible for air ticket on {code_to_desc.get(q, q)} ({air_ticket_percent}%).",
                        <<DictGet(self.code_to_desc, q, q),
                          Get(info, "air_ticket_percent", 0)>>))
        ELSE IF ~NotInfo(info)
        THEN Return(BoolV(FALSE),
                    Msg("Not eligible for air ticket on {code_to_desc.get(q, q)}.",
                        <<DictGet(self.code_to_desc, q, q)>>))
        ELSE Return(BoolV(FALSE), Msg("Leave type not found.", <<>>))

(***************************************************************************)
(* EmployeeHelpers (employee_helpers.py) on the mapped employee.           *)
(***************************************************************************)
\* a < b for the dates of two datetime values
DateLt(a, b) ==
    \/ a.y < b.y
    \/ a.y = b.y /\ a.m < b.m
    \/ a.y = b.y /\ a.m = b.m /\ a.d < b.d

NotAvailableMsg == Msg("Probation information not available.", <<>>)
FormatInvalidMsg == Msg("Probation date format invalid.", <<>>)

\* a faulty variant: a date that does not parse is answered False
is_on_probation_FalseOnBadDate(emp, clock) ==
    LET probation_end == Get(emp, "probation_end", None)
        end_date == strptime(probation_end)
    IN  IF probation_end = None \/ probation_end = <<>>
        THEN Return(NoneV, NotAvailableMsg)
        ELSE IF ~end_date.ok THEN Return(BoolV(FALSE), FormatInvalidMsg)
        ELSE IF DateLt(clock, end_date)
        THEN Return(BoolV(TRUE),
                    Msg("You are on probation until {probation_end}.", <<probation_end>>))
        ELSE Return(BoolV(FALSE),
                    Msg("You are not on probation. Probation ended on {probation_end}.",
                        <<probation_end>>))

is_on_probation(emp, clock) ==
    LET probation_end == Get(emp, "probation_end", None)
        end_date == strptime(probation_end)
    IN  IF probation_end = None \/ probation_end = <<>>
        THEN Return(NoneV, NotAvailableMsg)
        ELSE IF ~end_date.ok THEN Return(NoneV, FormatInvalidMsg)
        ELSE IF DateLt(clock, end_date)
        THEN Return(BoolV(TRUE),
                    Msg("You are on probation until {probation_end}.", <<probation_end>>))
        ELSE Return(BoolV(FALSE),
                    Msg("You are not on probation. Probation ended on {probation_end}.",
                        <<probation_end>>))

(***************************************************************************)
(* Semantic search (search_embeddings.py).  An embedding is a sequence of  *)
(* integers whose Euclidean norm is an integer, so that the floating-point *)
(* arithmetic of numpy is exact on it; a score is the fraction             *)
(* <<dot, norm1 * norm2>> and scores are compared as fractions.            *)
(***************************************************************************)
RECURSIVE dot(_, _)
dot(a, b) == IF a = <<>> THEN 0 ELSE a[1] * b[1] + dot(Tail(a), Tail(b))

\* numpy.linalg.norm
norm(v) == CHOOSE n \in 0..dot(v, v) : n * n = dot(v, v)

\* a >= b, a = b for fractions with positive denominators
Geq(a, b) == a[1] * b[2] >= b[1] * a[2]
Same(a, b) == a[1] * b[2] = b[1] * a[2]

get_query_embedding(provider) ==
    IF ~provider.api_key THEN Raise("RuntimeError")
    ELSE IF ~provider.transport_ok THEN Raise("APIConnectionError")
    ELSE ReturnValue(provider.embedding)

\* numpy.dot of two vectors of different sizes is a ValueError
cosine_similarity(vec1, vec2) ==
    IF norm(vec1) = 0 \/ norm(vec2) = 0 THEN ReturnValue(<<0, 1>>)
    ELSE IF Len(vec1) # Len(vec2) THEN Raise("ValueError")
    ELSE ReturnValue(<<dot(vec1, vec2), norm(vec1) * norm(vec2)>>)

\* a faulty variant: one element too many
Slice_OneMore(seq, k) == SubSeq(seq, 1, IF k + 1 < Len(seq) THEN k + 1 ELSE Len(seq))

\* seq[:k]
Slice(seq, k) ==
    IF k >= 0 THEN SubSeq(seq, 1, IF k < Len(seq) THEN k ELSE Len(seq))
    ELSE SubSeq(seq, 1, Len(seq) + k)

\* the entries of the corpus that are scored (non-empty embedding), in order
RECURSIVE Scorable(_)
Scorable(docs) ==
    IF docs = <<>> THEN <<>>
    ELSE IF Get(Head(docs), "embedding", <<>>) = <<>> THEN Scorable(Tail(docs))
    ELSE <<Head(docs)>> \o Scorable(Tail(docs))

\* list.sort(reverse=True, key=score) is stable: an element goes behind every
\* element that scores at least as much
RECURSIVE SortDescending(_)
SortDescending(scored) ==
    IF scored = <<>> THEN <<>>
    ELSE LET n == Len(scored)
             x == scored[n]
             done == SortDescending(SubSeq(scored, 1, n - 1))
             k == Cardinality({ i \in DOMAIN done : Geq(done[i][1], x[1]) })
         IN  SubSeq(done, 1, k) \o <<x>> \o SubSeq(done, k + 1, Len(done))

\* {"score": score, **entry}: a key of the entry replaces the one before it
WithScore(score, entry) ==
    [ key \in {"score"} \cup DOMAIN entry |->
        IF key \in DOMAIN entry THEN entry[key] ELSE score ]

\* [{"score": score, **entry} for score, entry in scored if score >= threshold],
\* and without the condition when filter is FALSE
RECURSIVE Selected(_, _, _)
Selected(scored, threshold, filter) ==
    IF scored = <<>> THEN <<>>
    ELSE LET score == Head(scored)[1]
             entry == Head(scored)[2]
             rest == Selected(Tail(scored), threshold, filter)
         IN  IF ~filter \/ Geq(score, threshold)
             THEN <<WithScore(score, entry)>> \o rest
             ELSE rest

search_doc_knowledge(docs, provider, threshold, top_k) ==
    LET got == get_query_embedding(provider)
        user_emb == got.value
        entries == Scorable(docs)
        scores == [ i \in DOMAIN entries |-> cosine_similarity(user_emb, entries[i].embedding) ]
        scored_sections ==
            SortDescending([ i \in DOMAIN entries |-> <<scores[i].value, entries[i]>> ])
        filtered_results == Selected(Slice(scored_sections, top_k), threshold, TRUE)
    IN  IF got.raised THEN got
        ELSE IF \E i \in DOMAIN scores : scores[i].raised THEN Raise("ValueError")
        ELSE IF filtered_results = <<>> /\ scored_sections # <<>>
        THEN ReturnValue(Selected(Slice(scored_sections, top_k), threshold, FALSE))
        ELSE ReturnValue(filtered_results)


(***************************************************************************)
(* Inputs of the code resolver: catalogs as main.py loads them from the    *)
(* mapped context.  Codes are unique within a catalog (spec, data model);  *)
(* one code is stored in lower case.                                       *)
(***************************************************************************)
CodeTexts == { <<"A">>, <<"A", "B">>, <<"c">> }

DescTexts == { <<"a">>, <<"a", "b">>, <<"B", "c">>, <<"b">> }

QueryTexts ==
    { <<"a">>, <<"A">>, <<" ", "a", " ">>, <<"a", "b">>, <<"A", "b">>, <<"c">>,
      <<"C">>, <<"b">>, <<"b", "c">>, <<" ", "b">>, <<>>, <<"z">>, <<"7">> }

LeaveType(id, code, desc, attach, self_service) ==
    [ id |-> id, code |-> code, desc |-> desc, attach_required |-> attach,
      self_service |-> self_service, anniv_date |-> None, atm_id |-> NoneV,
      eligibility_on_workdays |-> FALSE ]

UniqueCodes(cat) ==
    \A i, j \in DOMAIN cat : cat[i].code = cat[j].code => i = j

ResolveCatalogs ==
    { cat \in UNION { [1..n -> { LeaveType(0, c, d, FALSE, FALSE) :
                                   c \in CodeTexts, d \in DescTexts }] :
                      n \in 0..MaxTypes } : UniqueCodes(cat) }

InitResolve ==
    /\ api_data = NoData
    /\ \E cat \in ResolveCatalogs : ctx = [employee |-> <<>>, leave_types |-> cat, leave_balances |-> <<>>]
    /\ helper = LeaveHelpers_init(ctx.leave_balances, ctx.leave_types)
    /\ now = Clock(0)
    /\ call = NoCall
    /\ doc_knowledge = <<>>
    /\ env = NoEnv

\* helper._resolve_code(q)
ResolveCode ==
    /\ Idle
    /\ \E q \in QueryTexts :
          call' = [op |-> "_resolve_code", query |-> q, ret |-> resolve_code(helper, q)]
    /\ UNCHANGED <<api_data, ctx, helper, now, doc_knowledge, env>>

NextResolve == ResolveCode

SpecResolve == InitResolve /\ [][NextResolve]_vars

\* the catalog codes, as the caller of LeaveHelpers sees them
CatalogCodes == { ctx.leave_types[i].code : i \in DOMAIN ctx.leave_types }

\* the entries whose description contains the text t, ignoring case
DescHits(t) ==
    { i \in DOMAIN ctx.leave_types :
        Contains(lower(ctx.leave_types[i].desc), lower(t)) }

Resolved == call.op = "_resolve_code"

\* C1 (as claimed): called with an entry's code in any letter case and with
\* surrounding whitespace, _resolve_code returns that entry's code.
C1_ExactCodeAnyCase ==
    Resolved =>
        \A i \in DOMAIN ctx.leave_types :
            lower(strip(call.query)) = lower(ctx.leave_types[i].code)
                => call.ret = ctx.leave_types[i].code

\* C2 (as claimed): a query that is no exact code match returns the code of
\* the first entry, in catalog order, whose description contains the query
\* ignoring case, and None when no description contains it.
C2_FirstHitOfRawQuery ==
    (Resolved /\ upper(strip(call.query)) \notin CatalogCodes) =>
        IF DescHits(call.query) # {}
        THEN call.ret = ctx.leave_types[Min(DescHits(call.query))].code
        ELSE call.ret = None

\* C2 (amended): a query whose stripped upper-case form is no catalog code
\* returns the code of the first entry, in catalog order, whose description
\* contains the whitespace-stripped query ignoring case, and None when no
\* description contains the stripped query.
C2_FirstHitOfStrippedQuery ==
    (Resolved /\ upper(strip(call.query)) \notin CatalogCodes) =>
        IF DescHits(strip(call.query)) # {}
        THEN call.ret = ctx.leave_types[Min(DescHits(strip(call.query)))].code
        ELSE call.ret = None

\* C2 witness: two descriptions contain the query, the first one's code is
\* returned and it is not the code of the last hit.
C2_Witness ==
    /\ Resolved
    /\ upper(strip(call.query)) \notin CatalogCodes
    /\ Cardinality(DescHits(strip(call.query))) >= 2
    /\ strip(call.query) # <<>>
    /\ call.ret = ctx.leave_types[Min(DescHits(strip(call.query)))].code

(***************************************************************************)
(* The eligibility engine on a mapped context, as main.py loads it and     *)
(* hands it to LeaveHelpers.  Balance entries have the shape that          *)
(* map_leave_balances gives them; a balance key is a catalog code or the   *)
(* stringified id of a balance without leave type.                         *)
(***************************************************************************)

PastDate == <<"01", "-", "Jan", "-", "2026">>
TodayDate == <<"15", "-", "Jun", "-", "2026">>
FutureDate == <<"31", "-", "dec", "-", "2026">>
NoSuchDay == <<"31", "-", "Feb", "-", "2027">>
IsoDate == <<"2027", "-", "01", "-", "15">>

Balance(id, balance, air_ticket, percent, anniv) ==
    [ id |-> id, balance |-> balance, eligible |-> balance, paid |-> 0, unpaid |-> 0,
      days_allowed |-> 0, air_ticket |-> air_ticket, max_days |-> 0,
      allow_half_day |-> FALSE, anniv_date |-> anniv, air_ticket_percent |-> percent ]

EngineTypes ==
    { LeaveType(1, <<"A">>, <<"a", "b">>, TRUE, FALSE),
      LeaveType(2, <<"A", "B">>, <<"a">>, FALSE, TRUE) }

EngineCatalogs ==
    { cat \in UNION { [1..n -> EngineTypes] : n \in 0..MaxTypes } : UniqueCodes(cat) }

EngineInfos ==
    { Balance(1, 2, TRUE, 50, FutureDate),
      Balance(1, 0, TRUE, 50, FutureDate),
      Balance(1, 0, FALSE, 0, TodayDate),
      Balance(1, 0, FALSE, 0, NoSuchDay),
      Balance(1, 0 - 1, FALSE, 0, PastDate),
      Balance(1, 0, FALSE, 0, None),
      Balance(1, 2, FALSE, 0, None),
      Balance(1, 0, FALSE, 0, IsoDate) }

EngineKeys == { <<"A">>, <<"A", "B">>, <<"7">> }

UniqueKeys(d) == \A i, j \in DOMAIN d : d[i][1] = d[j][1] => i = j

EngineBalances ==
    { d \in UNION { [1..n -> EngineKeys \X EngineInfos] : n \in 0..MaxBalances } :
        UniqueKeys(d) }

EngineQueries == { <<"a">>, <<" ", "a", "B">>, <<"b">>, <<"7">>, <<"z">> }

Init ==
    /\ api_data = NoData
    /\ \E cat \in EngineCatalogs, bal \in EngineBalances :
          ctx = [employee |-> <<>>, leave_types |-> cat, leave_balances |-> bal]
    /\ helper = LeaveHelpers_init(ctx.leave_balances, ctx.leave_types)
    /\ now = Clock(0)
    /\ call = NoCall
    /\ doc_knowledge = <<>>
    /\ env = NoEnv

Unchanged == UNCHANGED <<api_data, ctx, helper, doc_knowledge, env>>

CanApplyFor ==
    /\ Idle
    /\ \E q \in EngineQueries :
          call' = [op |-> "can_apply_for", query |-> q, ret |-> can_apply_for(helper, q)]
    /\ UNCHANGED now
    /\ Unchanged

AirTicketWith ==
    /\ Idle
    /\ \E q \in EngineQueries :
          call' = [op |-> "air_ticket_with", query |-> q, ret |-> air_ticket_with(helper, q)]
    /\ UNCHANGED now
    /\ Unchanged

NeedsAttachment ==
    /\ Idle
    /\ \E q \in EngineQueries :
          call' = [op |-> "needs_attachment", query |-> q,
                   ret |-> needs_attachment(helper, q)]
    /\ UNCHANGED now
    /\ Unchanged

IsSelfService ==
    /\ Idle
    /\ \E q \in EngineQueries :
          call' = [op |-> "is_self_service", query |-> q, ret |-> is_self_service(helper, q)]
    /\ UNCHANGED now
    /\ Unchanged

NextEligibleDate ==
    /\ Idle
    /\ \E q \in EngineQueries, tod \in {0, 12} :
          /\ now' = Clock(tod)
          /\ call' = [op |-> "next_eligible_date", query |-> q,
                      ret |-> next_eligible_date(helper, q, now')]
    /\ Unchanged

SuggestAlternativeLeave ==
    /\ Idle
    /\ \E q \in EngineQueries :
          call' = [op |-> "suggest_alternative_leave", query |-> q,
                   ret |-> suggest_alternative_leave(helper, q)]
    /\ UNCHANGED now
    /\ Unchanged

\* AirTicketEligibility(ctx['leave_balances'], ctx['leave_types']).is_eligible(q)
IsEligible ==
    /\ Idle
    /\ \E q \in EngineQueries :
          call' = [op |-> "is_eligible", query |-> q,
                   ret |-> is_eligible(AirTicketEligibility_init(ctx.leave_balances,
                                                                 ctx.leave_types), q)]
    /\ UNCHANGED now
    /\ Unchanged

LeaveBalancesSummary ==
    /\ Idle
    /\ call' = [op |-> "leave_balances_summary", ret |-> leave_balances_summary(helper)]
    /\ UNCHANGED now
    /\ Unchanged

Next ==
    \/ CanApplyFor
    \/ AirTicketWith
    \/ NeedsAttachment
    \/ IsSelfService
    \/ NextEligibleDate
    \/ SuggestAlternativeLeave
    \/ IsEligible
    \/ LeaveBalancesSummary

Spec == Init /\ [][Next]_vars

\* what the caller of LeaveHelpers knows of the resolved code: its catalog
\* entry and its balance entry
Entry(code) == ctx.leave_types[CHOOSE i \in DOMAIN ctx.leave_types :
                                   ctx.leave_types[i].code = code]

HasBalance(code) == \E i \in DOMAIN ctx.leave_balances : ctx.leave_balances[i][1] = code

BalanceOf(code) ==
    ctx.leave_balances[CHOOSE i \in DOMAIN ctx.leave_balances :
                           ctx.leave_balances[i][1] = code][2]

\* the query resolves by the rule of the code resolver: its stripped
\* upper-case form is a catalog code, or a description contains its stripped
\* form ignoring case
Resolves(q) == upper(strip(q)) \in CatalogCodes \/ DescHits(strip(q)) # {}

ResolvedCode(q) ==
    IF upper(strip(q)) \in CatalogCodes THEN upper(strip(q))
    ELSE ctx.leave_types[Min(DescHits(strip(q)))].code

PerLeaveOps ==
    { "can_apply_for", "air_ticket_with", "needs_attachment", "is_self_service",
      "next_eligible_date", "suggest_alternative_leave" }

\* C8 (as claimed): a per-leave-code query returns a (value, message) pair and
\* never raises; an unresolved query gets the 'Leave type ... not found'
\* message with the caller's query text, and no other error message exists.
C8_NotFoundIsTheOnlyError ==
    call.op \in PerLeaveOps =>
        /\ ~call.ret.raised
        /\ ~Resolves(call.query) => call.ret.message = NotFoundMsg(call.query)
        /\ call.ret.message.fmt # "No balance info for {code}."

\* C9: can_apply_for is True exactly for a resolved code with a balance entry
\* of balance > 0, the message then giving the description and the balance;
\* for any other resolved code it is False with the insufficient-balance
\* message naming the description.
C9_CanApplyIffPositiveBalance ==
    call.op = "can_apply_for" =>
        LET q == call.query
            code == ResolvedCode(q)
            has == Resolves(q) /\ HasBalance(code) /\ BalanceOf(code).balance > 0
        IN  /\ ~call.ret.raised
            /\ call.ret.value = BoolV(has)
            /\ has =>
                 /\ call.ret.message.fmt =
                      "You can apply for {code_to_desc[code]}. Your balance: {balance} days."
                 /\ call.ret.message.args = <<Entry(code).desc, BalanceOf(code).balance>>
            /\ (Resolves(q) /\ ~has) =>
                 /\ call.ret.message.fmt =
                      "You do not have sufficient balance for {code_to_desc[code]}."
                 /\ call.ret.message.args = <<Entry(code).desc>>

\* C9 witness: a query resolved through a description to a code of balance 2
\* was answered True; the entry before it in the table has balance 0.
C9_Witness ==
    /\ call.op = "can_apply_for"
    /\ call.ret.value = BoolV(TRUE)
    /\ upper(strip(call.query)) \notin CatalogCodes
    /\ BalanceOf(ResolvedCode(call.query)).balance = 2
    /\ \E i \in DOMAIN ctx.leave_balances : ctx.leave_balances[i][2].balance = 0

\* C10 (as claimed): for a resolved code next_eligible_date returns "Now" when
\* balance > 0; else the anniversary text when it is present, parses and lies
\* after the evaluation time; else "" with the not-eligible message; it never
\* raises.
C10_NextEligibleDate ==
    (call.op = "next_eligible_date" /\ Resolves(call.query)) =>
        LET code == ResolvedCode(call.query)
            balance == IF HasBalance(code) THEN BalanceOf(code).balance ELSE 0
            anniv == IF HasBalance(code) THEN BalanceOf(code).anniv_date ELSE None
        IN  /\ ~call.ret.raised
            /\ IF balance > 0 THEN call.ret.value = StrV(<<"N", "o", "w">>)
               ELSE IF AnnivAhead(anniv, now) THEN call.ret.value = StrV(anniv)
               ELSE /\ call.ret.value = StrV(<<>>)
                    /\ call.ret.message.fmt =
                         "You are not eligible for {code_to_desc[code]} at the moment."

\* the positions of the balance table that hold another code than the given
\* one with balance > 0
OtherPositive(code) ==
    { i \in DOMAIN ctx.leave_balances :
        ctx.leave_balances[i][1] # code /\ ctx.leave_balances[i][2].balance > 0 }

\* the balance of a code, 0 when the table has no entry for it
BalanceOrZero(code) == IF HasBalance(code) THEN BalanceOf(code).balance ELSE 0

Suggested == call.op = "suggest_alternative_leave"

NoSuggestionMsg == Msg("You do not have sufficient balance in any leave type.", <<>>)

\* C11 (as claimed): suggest_alternative_leave gives a suggestion only for a
\* resolved code whose balance is not > 0; the suggestion is the description
\* of the first other code of the balance table with balance > 0; with no
\* such code the value is None with the no-sufficient-balance message.
C11_SuggestsFirstDescription ==
    Suggested =>
        LET q == call.query
            code == ResolvedCode(q)
            others == OtherPositive(code)
            first == ctx.leave_balances[Min(others)][1]
        IN  /\ ~call.ret.raised
            /\ IF ~Resolves(q) \/ BalanceOrZero(code) > 0
               THEN call.ret.value = NoneV
               ELSE IF others # {}
               THEN /\ first \in CatalogCodes
                    /\ call.ret.value = StrV(Entry(first).desc)
               ELSE call.ret = Return(NoneV, NoSuggestionMsg)

\* C11 (amended): as above, and the suggestion is the first other code
\* itself when the catalog has no entry, hence no description, for it.
C11_SuggestsFirstDescriptionOrCode ==
    Suggested =>
        LET q == call.query
            code == ResolvedCode(q)
            others == OtherPositive(code)
            first == ctx.leave_balances[Min(others)][1]
        IN  /\ ~call.ret.raised
            /\ IF ~Resolves(q) \/ BalanceOrZero(code) > 0
               THEN call.ret.value = NoneV
               ELSE IF others # {}
               THEN call.ret.value =
                        StrV(IF first \in CatalogCodes THEN Entry(first).desc ELSE first)
               ELSE call.ret = Return(NoneV, NoSuggestionMsg)

\* C11 witness: the resolved code has no positive balance, two other codes
\* have one, and the description of the first of them is suggested although
\* the second has the description of another entry.
C11_Witness ==
    /\ Suggested
    /\ Resolves(call.query)
    /\ BalanceOrZero(ResolvedCode(call.query)) <= 0
    /\ Cardinality(OtherPositive(ResolvedCode(call.query))) = 2
    /\ LET first == ctx.leave_balances[Min(OtherPositive(ResolvedCode(call.query)))][1]
       IN  /\ first \in CatalogCodes
           /\ call.ret.value = StrV(Entry(first).desc)

\* C12 (as claimed): air_ticket_with and is_eligible return True exactly when
\* the query resolves, by the rule of the code resolver, to a code whose
\* balance entry has air_ticket true, the True message then giving that
\* entry's air_ticket_percent; so both give the same boolean.
C12_AirTicketSameAnswer ==
    call.op \in {"air_ticket_with", "is_eligible"} =>
        LET q == call.query
            code == ResolvedCode(q)
            granted == Resolves(q) /\ HasBalance(code) /\ BalanceOf(code).air_ticket
        IN  /\ ~call.ret.raised
            /\ call.ret.value = BoolV(granted)
            /\ granted => call.ret.message.args[2] = BalanceOf(code).air_ticket_percent

\* C14 (as claimed): for every balance table and catalog, orphan balance
\* keys included, leave_balances_summary does not raise and returns one row
\* per balance entry in the table's order, with the entry's code, its
\* description (the code when none is known), balance, eligible amount,
\* air-ticket flag and the attachment flag.
C14_SummaryRowPerBalance ==
    call.op = "leave_balances_summary" =>
        /\ ~call.ret.raised
        /\ Len(call.ret.value) = Len(ctx.leave_balances)
        /\ \A i \in DOMAIN ctx.leave_balances :
              LET code == ctx.leave_balances[i][1]
                  info == ctx.leave_balances[i][2]
                  row == call.ret.value[i]
              IN  /\ row.code = code
                  /\ row.desc = IF code \in CatalogCodes THEN Entry(code).desc ELSE code
                  /\ row.balance = info.balance
                  /\ row.eligible = info.eligible
                  /\ row.air_ticket = info.air_ticket
                  /\ code \in CatalogCodes =>
                        row.attach_required = Entry(code).attach_required

Now == <<"N", "o", "w">>

\* C17: the three balance-dependent queries share the predicate balance > 0:
\* for a query that resolves to a code, can_apply_for is True iff
\* next_eligible_date is "Now" iff suggest_alternative_leave returns
\* (None, "") without computing a suggestion, each exactly when the code has
\* a balance entry with balance > 0.
C17_OneHasBalancePredicate ==
    (call.op \in {"can_apply_for", "next_eligible_date", "suggest_alternative_leave"}
        /\ Resolves(call.query)) =>
        LET has == BalanceOrZero(ResolvedCode(call.query)) > 0
        IN  /\ ~call.ret.raised
            /\ call.op = "can_apply_for" => (call.ret.value = BoolV(TRUE) <=> has)
            /\ call.op = "next_eligible_date" => (call.ret.value = StrV(Now) <=> has)
            /\ call.op = "suggest_alternative_leave" =>
                  (call.ret = Return(NoneV, Msg("", <<>>)) <=> has)

\* C17 witness: the resolved code has a balance entry of exactly 0 and an
\* anniversary ahead, and next_eligible_date does not answer "Now".
C17_Witness ==
    /\ call.op = "next_eligible_date"
    /\ Resolves(call.query)
    /\ HasBalance(ResolvedCode(call.query))
    /\ BalanceOf(ResolvedCode(call.query)).balance = 0
    /\ call.ret.value = StrV(FutureDate)

(***************************************************************************)
(* The flag queries of a session: the catalog flags of LeaveHelpers and    *)
(* the probation flag of EmployeeHelpers, on the mapped employee and       *)
(* catalog that main.py loads.  The flag queries read no balance.          *)
(***************************************************************************)
FlagTypes ==
    { LeaveType(1, <<"A">>, <<"a", "b">>, TRUE, FALSE),
      LeaveType(2, <<"A", "B">>, <<"a">>, FALSE, TRUE),
      LeaveType(3, <<"c">>, <<"B", "c">>, TRUE, TRUE) }

FlagCatalogs ==
    { cat \in UNION { [1..n -> FlagTypes] : n \in 0..MaxTypes } : UniqueCodes(cat) }

ProbationEnds ==
    { None, <<>>, PastDate, TodayDate, FutureDate, NoSuchDay, IsoDate }

\* the mapped employee: {} for an empty raw record, else the mapped fields
MappedEmployees ==
    { <<>> } \cup
    { [emp_id |-> 682, name |-> <<"a">>, probation_end |-> p] : p \in ProbationEnds }

InitFlags ==
    /\ api_data = NoData
    /\ \E emp \in MappedEmployees, cat \in FlagCatalogs :
          ctx = [employee |-> emp, leave_types |-> cat, leave_balances |-> <<>>]
    /\ helper = LeaveHelpers_init(ctx.leave_balances, ctx.leave_types)
    /\ now = Clock(0)
    /\ call = NoCall
    /\ doc_knowledge = <<>>
    /\ env = NoEnv

\* emp_helper = EmployeeHelpers(ctx['employee']); emp_helper.is_on_probation()
IsOnProbation ==
    /\ Idle
    /\ \E tod \in {0, 12} :
          /\ now' = Clock(tod)
          /\ call' = [op |-> "is_on_probation",
                      ret |-> is_on_probation(ctx.employee, now')]
    /\ Unchanged

NextFlags ==
    \/ NeedsAttachment
    \/ IsSelfService
    \/ IsOnProbation

SpecFlags == InitFlags /\ [][NextFlags]_vars

\* the probation end date of the session's employee, None when it has none
ProbationEnd ==
    IF "probation_end" \in DOMAIN ctx.employee THEN ctx.employee.probation_end ELSE None

\* C13: needs_attachment and is_self_service return None exactly when the
\* query does not resolve and otherwise the catalog entry's flag;
\* is_on_probation returns None exactly when the probation end date is
\* missing or does not parse and otherwise True iff today is strictly before
\* the end date.  No indeterminate answer is False.
C13_IndeterminateIsNone ==
    /\ call.op \in {"needs_attachment", "is_self_service"} =>
          LET q == call.query
              flag == IF call.op = "needs_attachment"
                      THEN Entry(ResolvedCode(q)).attach_required
                      ELSE Entry(ResolvedCode(q)).self_service
          IN  /\ ~call.ret.raised
              /\ call.ret.value = NoneV <=> ~Resolves(q)
              /\ Resolves(q) => call.ret.value = BoolV(flag)
    /\ call.op = "is_on_probation" =>
          LET missing == ProbationEnd = None \/ ProbationEnd = <<>>
              parses == strptime(ProbationEnd).ok
          IN  /\ ~call.ret.raised
              /\ call.ret.value = NoneV <=> (missing \/ ~parses)
              /\ (~missing /\ parses) =>
                    call.ret.value = BoolV(DateLt(now, strptime(ProbationEnd)))

\* C13 witness: the probation end date is a day its month does not have, and
\* the answer is None, not False.
C13_Witness ==
    /\ call.op = "is_on_probation"
    /\ ProbationEnd = NoSuchDay
    /\ call.ret = Return(NoneV, FormatInvalidMsg)

(***************************************************************************)
(* The pipeline: a raw ERP payload is normalized (mapping.py), the mapped  *)
(* context is handed to LeaveHelpers, a question is answered.  A raw       *)
(* balance id without leave type gives an orphan balance key.              *)
(***************************************************************************)
RawType(id, code, desc, attach, self_service) ==
    [ Lpd_ID_N |-> id, Lvm_Code_V |-> code, Lvm_Description_V |-> desc,
      Lvm_AttachRequired_N |-> attach, Lvm_ShwSelfService_N |-> self_service ]

RawTypes ==
    { RawType(1, <<"A">>, <<"a", "b">>, 1, 0),
      RawType(2, <<"A", "B">>, <<"a">>, 0, 1),
      RawType(3, <<"B">>, <<"b", "7">>, 0, 0) }

RawItem(balance, airticket, anniv) ==
    [ Balance |-> balance, Eligible |-> balance, Airticket |-> airticket,
      AirTicketPercent |-> 50 * airticket, Emp_AnnivDate_D |-> anniv ]

RawVals ==
    { ListVal(<<>>), OtherVal,
      ListVal(<<RawItem(2, 1, None)>>),
      ListVal(<<RawItem(0, 0, FutureDate), RawItem(2, 1, None)>>) }

RawIds == { 1, 2, 7 }

RawEmployees ==
    { <<>>, <<[Emp_ID_N |-> 682, Emp_EDisplayName_V |-> <<"a">>]>> }

RawCatalogs ==
    { cat \in UNION { [1..n -> RawTypes] : n \in 0..MaxTypes } :
        \A i, j \in DOMAIN cat : cat[i] = cat[j] => i = j }

RawBalances ==
    { d \in UNION { [1..n -> RawIds \X RawVals] : n \in 0..MaxBalances } : UniqueKeys(d) }

InitPipeline ==
    /\ \E emp \in RawEmployees, cat \in RawCatalogs, bal \in RawBalances :
          api_data = [employee |-> emp, leave_types |-> cat, leave_balances |-> bal]
    /\ ctx = NotMapped
    /\ helper = NoHelper
    /\ now = Clock(0)
    /\ call = NoCall
    /\ doc_knowledge = <<>>
    /\ env = NoEnv

\* mapping.py as a script: the raw API output becomes the mapped context
BuildFullContext ==
    /\ api_data # NoData
    /\ "leave_types" \in DOMAIN api_data   \* api_output.json was written
    /\ ctx = NotMapped
    /\ ctx' = build_full_context(api_data)
    /\ UNCHANGED <<api_data, helper, now, call, doc_knowledge, env>>

\* the mapped context is loaded and LeaveHelpers is built on it
LoadContext ==
    /\ ctx # NotMapped
    /\ helper = NoHelper
    /\ helper' = LeaveHelpers_init(ctx.leave_balances, ctx.leave_types)
    /\ UNCHANGED <<api_data, ctx, now, call, doc_knowledge, env>>

NextPipeline ==
    \/ BuildFullContext
    \/ LoadContext
    \/ ResolveCode
    \/ CanApplyFor

SpecPipeline == InitPipeline /\ [][NextPipeline]_vars

\* the raw ids that map_leave_balances maps (value a non-empty list) and that
\* no raw leave type carries
OrphanIds ==
    { api_data.leave_balances[i][1] : i \in
        { j \in DOMAIN api_data.leave_balances :
            /\ ~SkippedVals(api_data.leave_balances[j][2])
            /\ \A k \in DOMAIN api_data.leave_types :
                  api_data.leave_types[k].Lpd_ID_N # api_data.leave_balances[j][1] } }

\* C3 (as claimed): an orphan balance entry is found by a query that is its
\* numeric-string code, and by no other query.
C3_OrphanFoundByItsCodeOnly ==
    (api_data # NoData /\ call.op = "_resolve_code") =>
        \A id \in OrphanIds :
            /\ strip(call.query) = Str(id) => call.ret = Str(id)
            /\ strip(call.query) # Str(id) => call.ret # Str(id)

\* the positions of the raw balance map that map_leave_balances does not skip
KeptRaw ==
    { i \in DOMAIN api_data.leave_balances :
        ~SkippedVals(api_data.leave_balances[i][2]) }

\* the key of a raw id: the code of the leave type of that id, else str(id)
KeyOf(id) ==
    LET types == { k \in DOMAIN api_data.leave_types :
                     api_data.leave_types[k].Lpd_ID_N = id }
    IN  IF types = {} THEN Str(id)
        ELSE api_data.leave_types[CHOOSE k \in types : TRUE].Lvm_Code_V

\* C16: map_leave_balances skips the raw entries whose value is empty or no
\* list and maps every other: the output keys are the codes of the leave
\* types of the non-skipped raw ids, the stringified id where no leave type
\* has the id; the output holds one entry per non-skipped raw id, built from
\* the first element of its list.
C16_MappedKeySet ==
    (api_data # NoData /\ ctx # NotMapped) =>
        LET raw == api_data.leave_balances
        IN  /\ DictKeys(ctx.leave_balances) = { KeyOf(raw[i][1]) : i \in KeptRaw }
            /\ Len(ctx.leave_balances) = Cardinality(KeptRaw)
            /\ \A i \in KeptRaw :
                  LET entry == DictAt(ctx.leave_balances, KeyOf(raw[i][1]))
                      item == raw[i][2].items[1]
                  IN  /\ entry.id = raw[i][1]
                      /\ entry.balance = item.Balance
                      /\ entry.air_ticket = (item.Airticket # 0)
                      /\ entry.anniv_date = item.Emp_AnnivDate_D

\* C16 witness: of two raw entries one is skipped and the other, an id
\* without leave type holding a two-element list, is mapped under its
\* stringified id from the first element.
C16_Witness ==
    /\ api_data # NoData /\ ctx # NotMapped
    /\ Len(api_data.leave_balances) = 2
    /\ Cardinality(KeptRaw) = 1
    /\ \E i \in KeptRaw :
          /\ Len(api_data.leave_balances[i][2].items) = 2
          /\ KeyOf(api_data.leave_balances[i][1]) = Str(api_data.leave_balances[i][1])
          /\ DictHas(ctx.leave_balances, Str(api_data.leave_balances[i][1]))

(***************************************************************************)
(* The ERP client (api/client.py) and the fetch-then-normalize pipeline.   *)
(* The ERP answers each call with a JSON list of records, or the call      *)
(* fails (timeout, connection error, HTTP error status, invalid JSON).     *)
(***************************************************************************)
Failed == [ok |-> FALSE]
Answer(data) == [ok |-> TRUE, data |-> data]

\* requests.get/post, raise_for_status and resp.json() on one ERP call
Request(outcome) ==
    IF outcome.ok THEN ReturnValue(outcome.data) ELSE Raise("RequestException")

get_employee_details(erp) ==
    LET resp == Request(erp.employee)
    IN  IF resp.raised THEN ReturnValue(<<>>) ELSE resp

get_leave_types(erp) ==
    LET resp == Request(erp.leave_types)
    IN  IF resp.raised THEN ReturnValue(<<>>) ELSE resp

\* a faulty variant: the failure of the balance call is not caught
get_leave_balance_NoExcept(erp, lpd_id) == Request(erp.balance[lpd_id])

get_leave_balance(erp, lpd_id) ==
    LET resp == Request(erp.balance[lpd_id])
    IN  IF resp.raised THEN ReturnValue(<<>>) ELSE resp

\* a faulty variant: a balance is fetched for every id the ERP knows
FetchBalances_EveryId(erp, leave_types, n) ==
    LET ids == DOMAIN erp.balance
        Order == CHOOSE f \in [1..Cardinality(ids) -> ids] :
                     \A i, j \in DOMAIN f : i < j => f[i] < f[j]
    IN  ReturnValue([ i \in DOMAIN Order |->
                        <<Order[i], ListVal(get_leave_balance(erp, Order[i]).value)>> ])

\* the loop of fetch_all_data over the first n fetched leave types
RECURSIVE FetchBalances(_, _, _)
FetchBalances(erp, leave_types, n) ==
    IF n = 0 THEN ReturnValue(<<>>)
    ELSE LET done == FetchBalances(erp, leave_types, n - 1)
             \* lt.get("Lpd_ID_N") is None when the record has no such key
             lpd_id == leave_types[n].Lpd_ID_N
             got == get_leave_balance(erp, lpd_id)
         IN  IF done.raised THEN done
             ELSE IF "Lpd_ID_N" \notin DOMAIN leave_types[n] THEN done
             ELSE IF got.raised THEN got
             ELSE ReturnValue(DictSet(done.value, lpd_id, ListVal(got.value)))

fetch_all_data(erp) ==
    LET employee == get_employee_details(erp)
        leave_types == get_leave_types(erp)
        leave_balances == FetchBalances(erp, leave_types.value, Len(leave_types.value))
    IN  IF employee.raised THEN employee
        ELSE IF leave_types.raised THEN leave_types
        ELSE IF leave_balances.raised THEN leave_balances
        ELSE ReturnValue([ employee |-> employee.value,
                           leave_types |-> leave_types.value,
                           leave_balances |-> leave_balances.value ])

\* a leave type the ERP lists without Lpd_ID_N
NoIdType ==
    [ Lvm_Code_V |-> <<"N">>, Lvm_Description_V |-> <<"n">>,
      Lvm_AttachRequired_N |-> 0, Lvm_ShwSelfService_N |-> 0 ]

FetchTypes == RawTypes \cup { NoIdType }

FetchCatalogs ==
    { cat \in UNION { [1..n -> FetchTypes] : n \in 0..MaxTypes } :
        \A i, j \in DOMAIN cat : cat[i] = cat[j] => i = j }

TypeIds == { t.Lpd_ID_N : t \in RawTypes }

\* the answers of the ERP to the calls of one fetch
ErpAnswers ==
    [ employee : { Failed } \cup { Answer(emp) : emp \in RawEmployees },
      leave_types : { Failed } \cup { Answer(cat) : cat \in FetchCatalogs },
      balance : [ TypeIds -> { Failed, Answer(<<>>), Answer(<<RawItem(2, 1, None)>>) } ] ]

InitFetch ==
    /\ api_data = NoData
    /\ ctx = NotMapped
    /\ helper = NoHelper
    /\ now = Clock(0)
    /\ call = NoCall
    /\ doc_knowledge = <<>>
    /\ env \in ErpAnswers

\* client.py as a script: data = client.fetch_all_data(emp_id), then saved
FetchAllData ==
    /\ api_data = NoData
    /\ LET ret == fetch_all_data(env)
       IN  api_data' = IF ret.raised THEN ret ELSE ret.value
    /\ UNCHANGED <<ctx, helper, now, call, doc_knowledge, env>>

NextFetch ==
    \/ FetchAllData
    \/ BuildFullContext
    \/ LoadContext
    \/ LeaveBalancesSummary

SpecFetch == InitFetch /\ [][NextFetch]_vars

Fetched == api_data # NoData

\* the leave types of the ERP's answer that carry an id
TypesWithId ==
    IF env.leave_types.ok
    THEN { t \in { env.leave_types.data[i] : i \in DOMAIN env.leave_types.data } :
             "Lpd_ID_N" \in DOMAIN t }
    ELSE {}

\* C15: whatever ERP calls fail, fetch_all_data does not raise and returns a
\* mapping with the keys employee, leave_types and leave_balances; a failed
\* employee or leave-type call gives an empty list, a failed leave-type call
\* an empty balance map; a failed balance call gives an empty list under
\* its id and leaves the balances of the other ids as the ERP answered them.
C15_FetchNeverRaises ==
    Fetched =>
        /\ DOMAIN api_data = {"employee", "leave_types", "leave_balances"}
        /\ api_data.employee = IF env.employee.ok THEN env.employee.data ELSE <<>>
        /\ api_data.leave_types = IF env.leave_types.ok THEN env.leave_types.data ELSE <<>>
        /\ ~env.leave_types.ok => api_data.leave_balances = <<>>
        /\ DictKeys(api_data.leave_balances) = { t.Lpd_ID_N : t \in TypesWithId }
        /\ \A id \in DictKeys(api_data.leave_balances) :
              DictAt(api_data.leave_balances, id) =
                  IF env.balance[id].ok THEN ListVal(env.balance[id].data)
                  ELSE ListVal(<<>>)

\* C15 witness: the employee call and one balance call failed, another
\* balance call answered, and the fetch returned both balances.
C15_Witness ==
    /\ Fetched
    /\ ~env.employee.ok
    /\ "leave_balances" \in DOMAIN api_data
    /\ \E a, b \in DictKeys(api_data.leave_balances) :
          /\ ~env.balance[a].ok
          /\ DictAt(api_data.leave_balances, a) = ListVal(<<>>)
          /\ env.balance[b].ok
          /\ DictAt(api_data.leave_balances, b) = ListVal(<<RawItem(2, 1, None)>>)

Mapped == ctx # NotMapped

\* C18: the context that build_full_context makes of the output of
\* fetch_all_data has no orphan key: every key of leave_balances is the code
\* of an entry of leave_types; a leave type whose balance call failed has no
\* balance entry.
C18_NoOrphanAfterFetch ==
    (Fetched /\ Mapped) =>
        /\ \A i \in DOMAIN ctx.leave_balances :
              \E j \in DOMAIN ctx.leave_types :
                  ctx.leave_types[j].code = ctx.leave_balances[i][1]
        /\ \A t \in TypesWithId :
              ~env.balance[t.Lpd_ID_N].ok => ~DictHas(ctx.leave_balances, t.Lvm_Code_V)

\* C18 witness: two leave types were fetched, the balance call of one
\* failed, and the mapped context holds the balance of the other under its
\* code.
C18_Witness ==
    /\ Fetched /\ Mapped
    /\ Len(ctx.leave_types) = 2
    /\ Len(ctx.leave_balances) = 1
    /\ \E t \in TypesWithId : ~env.balance[t.Lpd_ID_N].ok
    /\ \E j \in DOMAIN ctx.leave_types :
          ctx.leave_types[j].code = ctx.leave_balances[1][1]

(***************************************************************************)
(* Inputs of the semantic search.                                          *)
(***************************************************************************)
Doc(section, embedding) == [section |-> section, text |-> section, embedding |-> embedding]

DocEntries ==
    { Doc("s1", <<1, 0>>),
      Doc("s2", <<1, 0>>),
      Doc("s3", <<3, 4>>),
      Doc("empty", <<>>),
      Doc("zero", <<0, 0>>),
      Doc("3-d", <<1, 0, 0>>),
      [section |-> "no embedding", text |-> "t"],
      [section |-> "scored", text |-> "t", embedding |-> <<3, 4>>, score |-> <<1, 1>>] }

Corpora == UNION { [1..n -> DocEntries] : n \in 0..MaxDocs }

Providers ==
    { [api_key |-> FALSE, transport_ok |-> TRUE, embedding |-> <<1, 0>>],
      [api_key |-> TRUE, transport_ok |-> FALSE, embedding |-> <<1, 0>>] }
    \cup { [api_key |-> TRUE, transport_ok |-> TRUE, embedding |-> e] :
             e \in { <<1, 0>>, <<4, 3>>, <<0, 0>> } }

\* 0.50 (the default), 0.6 and 1.1
Thresholds == { <<1, 2>>, <<3, 5>>, <<11, 10>> }

InitSearch ==
    /\ api_data = NoData
    /\ ctx = NotMapped
    /\ helper = NoHelper
    /\ now = Clock(0)
    /\ call = NoCall
    /\ doc_knowledge \in Corpora
    /\ env \in Providers

SearchDocKnowledge ==
    /\ call = NoCall
    /\ \E threshold \in Thresholds, top_k \in 0..MaxTopK :
          call' = [op |-> "search_doc_knowledge", threshold |-> threshold,
                   top_k |-> top_k,
                   ret |-> search_doc_knowledge(doc_knowledge, env, threshold, top_k)]
    /\ UNCHANGED <<api_data, ctx, helper, now, doc_knowledge, env>>

NextSearch == SearchDocKnowledge

SpecSearch == InitSearch /\ [][NextSearch]_vars

Searched == call.op = "search_doc_knowledge"

\* the score of an entry or of a returned record against the query embedding
ScoreOf(entry) == cosine_similarity(env.embedding, entry.embedding).value

\* the positions of the corpus that hold a candidate (a scored entry)
Candidates ==
    { i \in DOMAIN doc_knowledge :
        "embedding" \in DOMAIN doc_knowledge[i] /\ doc_knowledge[i].embedding # <<>> }

CandidateScores == { ScoreOf(doc_knowledge[i]) : i \in Candidates }

AtLeast(score) == { i \in Candidates : Geq(ScoreOf(doc_knowledge[i]), score) }

\* C4: a search that returns gives at most top_k results; when a candidate
\* scores >= threshold, every result scores >= threshold; when candidates
\* exist and none does, the results are the top_k highest-scored candidates:
\* at every score level the results hold as many records as the candidates
\* have, up to top_k, and every result is a candidate of the corpus.
C4_TopKAndThreshold ==
    (Searched /\ ~call.ret.raised) =>
        LET res == call.ret.value
            hit == \E s \in CandidateScores : Geq(s, call.threshold)
            ResAtLeast(s) == { i \in DOMAIN res : Geq(ScoreOf(res[i]), s) }
            Cap(n) == IF n < call.top_k THEN n ELSE call.top_k
        IN  /\ Len(res) <= call.top_k
            /\ hit => \A i \in DOMAIN res : Geq(ScoreOf(res[i]), call.threshold)
            /\ (Candidates # {} /\ ~hit) =>
                 /\ Len(res) = Cap(Cardinality(Candidates))
                 /\ \A s \in CandidateScores :
                       Cardinality(ResAtLeast(s)) = Cap(Cardinality(AtLeast(s)))
                 /\ \A i \in DOMAIN res : \E j \in Candidates :
                       \A key \in DOMAIN doc_knowledge[j] :
                           res[i][key] = doc_knowledge[j][key]

\* C4 witness: three candidates, none reaches the threshold, and the two
\* best are returned.
C4_Witness ==
    /\ Searched /\ ~call.ret.raised
    /\ Cardinality(Candidates) = 3
    /\ Cardinality(CandidateScores) >= 2
    /\ \A s \in CandidateScores : ~Geq(s, call.threshold)
    /\ call.top_k = 2
    /\ Len(call.ret.value) = 2

\* C5 (as claimed): the results are in non-increasing order of their "score"
\* field, which is the cosine score computed for the entry; equal scores keep
\* the corpus order; every other field of the entry is carried through.
C5_OrderedByComputedScore ==
    (Searched /\ ~call.ret.raised) =>
        LET res == call.ret.value
        IN  /\ \A i \in DOMAIN res : Same(res[i].score, ScoreOf(res[i]))
            /\ \A i, j \in DOMAIN res : i < j => Geq(res[i].score, res[j].score)
            /\ \E pos \in [DOMAIN res -> Candidates] :
                  /\ \A i, j \in DOMAIN res : i # j => pos[i] # pos[j]
                  /\ \A i, j \in DOMAIN res :
                        (i < j /\ Same(ScoreOf(res[i]), ScoreOf(res[j]))) => pos[i] < pos[j]
                  /\ \A i \in DOMAIN res :
                        \A key \in DOMAIN doc_knowledge[pos[i]] \ {"score"} :
                            res[i][key] = doc_knowledge[pos[i]][key]

\* C6 (as claimed): an entry whose embedding cannot be scored against the
\* query embedding is skipped and the search still returns; a zero norm
\* scores 0.0.
C6_UnscorableEntrySkipped ==
    (Searched /\ env.api_key /\ env.transport_ok) =>
        /\ ~call.ret.raised
        /\ \A i \in DOMAIN call.ret.value :
              norm(call.ret.value[i].embedding) = 0 =>
                  Same(ScoreOf(call.ret.value[i]), <<0, 1>>)

\* C7 (as claimed): with the credential present, a failed provider call makes
\* the search return an empty list; only the missing credential raises.
C7_TransportFailureGivesEmptyList ==
    Searched =>
        /\ (env.api_key /\ ~env.transport_ok) => call.ret = ReturnValue(<<>>)
        /\ ~env.api_key => call.ret = Raise("RuntimeError")

====
